---- MODULE Spec2Model ----
(***************************************************************************)
(* A model of the playback store of media-editor-app.                      *)
(*                                                                         *)
(* Part 1 is the expo-audio AudioService of src/services/AudioService.ts:  *)
(* its fields, the expo-audio player objects it creates and removes, the   *)
(* interval timer of the position poll, and the JavaScript event loop.     *)
(* JavaScript runs one task at a time to completion: `stack` is the call   *)
(* stack of the running task, and every action that starts a task (a       *)
(* command, a player event, a timer tick, the resumption of an await) is   *)
(* enabled only when the stack is empty.  A notification round             *)
(* (notifyListeners) is a frame on the stack: the listeners are called one *)
(* by one and each callback may invoke an unsubscribe handle before it     *)
(* returns.                                                                *)
(*                                                                         *)
(* Part 2 is the react-native-track-player AudioService of                 *)
(* src/src/components/MediaPlayer.tsx, whose loadTrack awaits the player,  *)
(* together with MetadataService.extractMetadata, which uses the queue of  *)
(* the same TrackPlayer singleton.  Every await is a step of its own, so   *)
(* calls overlap.  Part 2 follows currentTrack, isLoading and the queue;   *)
(* it runs with no listener subscribed (rounds are Part 1's concern).      *)
(*                                                                         *)
(* Part 3 is the string functions of src/services/MetadataService.ts,     *)
(* applied to file names, tags and dates drawn in the initial state.       *)
(* Part 4 is the library scan of loadDeviceMusic: concurrent calls of      *)
(* createTrackWithMetadata on the MetadataService singleton, one step per  *)
(* await, each await resolving or throwing.                                *)
(*                                                                         *)
(* A Track is modelled by its id (the uri is one-to-one with the id).      *)
(* Times are whole seconds in the player and milliseconds in the store.    *)
(***************************************************************************)
EXTENDS Integers, Sequences, FiniteSets, TLC

\* ---- bounds of the model ------------------------------------------------
MaxListeners == 2   \* distinct listener functions
MaxTracks == 2      \* distinct tracks
MaxSeconds == 1     \* length of a loaded track, in seconds
MaxAwaiting == 1    \* stop() calls suspended at `await seekTo(0)` at a time
MaxPlayers == 2     \* pool of player object identities
MaxTimers == 2      \* pool of interval timer identities
MaxCalls == 2       \* loadTrack calls of Part 2 in flight at a time
MaxExtracts == 1    \* extractMetadata calls in flight at a time
MaxQueue == 3       \* tracks the TrackPlayer queue holds
MaxScans == 2       \* assets of the library scan
MaxTagQueue == 3    \* entries the queue holds during a scan

\* ---- program constants --------------------------------------------------
Null == 0               \* null / undefined / no timer
InitialVolume == 100    \* volume: 1.0, in hundredths
MsPerSecond == 1000     \* seconds -> milliseconds

ListenerIds == 1..MaxListeners
TrackIds == 1..MaxTracks
PlayerIds == 1..MaxPlayers
TimerIds == 1..MaxTimers
CallIds == 1..MaxCalls
ExtractIds == 1..MaxExtracts
ScanIds == 1..MaxScans

\* The queue entry with id "temp-metadata-extract".
TempId == MaxTracks + 1

VARIABLES
  state,                    \* AudioService.state : AudioState
  player,                   \* AudioService.player : Null or a player object
  listeners,                \* AudioService.listeners : array of listeners
  positionUpdateInterval,   \* AudioService.positionUpdateInterval
  players,                  \* the expo-audio player objects
  timers,                   \* the interval timers that are set
  stack,                    \* call stack of the running task (top first)
  awaiting,                 \* stop() calls suspended at await seekTo(0)
  log                       \* listener calls of the running task

\* Part 2
VARIABLES
  tpState,        \* AudioService.state: its currentTrack and isLoading
  isInitialized,  \* AudioService.isInitialized
  settingUp,      \* the constructor's setupTrackPlayer() has not returned
  queue,          \* the queue of the TrackPlayer singleton (track ids)
  loads,          \* the loadTrack calls: where each is suspended
  extracts,       \* the extractMetadata calls: where each is suspended
  lastIssued,     \* history: track of the loadTrack call issued last
  lastLanded,     \* history: track of the call whose add() resolved last
  playerThrew     \* history: a reset(), add() or getQueue() call threw

\* Part 3
VARIABLES
  call,      \* the MetadataService function applied, and its arguments
  metaPc,    \* how far the call has got
  metadata,  \* createTrackWithMetadata: the result of extractMetadata
  result,    \* the MetadataResult / Track returned
  year,      \* the value extractYearFromDate returned
  info       \* the objects the getDetailedTrackInfo calls returned

\* Part 4
VARIABLES
  scans,                     \* the createTrackWithMetadata calls of the scan
  tagQueue,                  \* the TrackPlayer queue: the asset of each entry
  isTrackPlayerInitialized   \* MetadataService.isTrackPlayerInitialized

expoVars == <<state, player, listeners, positionUpdateInterval, players,
              timers, stack, awaiting, log>>
tpVars == <<tpState, isInitialized, settingUp, queue, loads, extracts,
            lastIssued, lastLanded, playerThrew>>
metaVars == <<call, metaPc, metadata, result, year, info>>
scanVars == <<scans, tagQueue, isTrackPlayerInitialized>>
vars == <<expoVars, tpVars, metaVars, scanVars>>

Range(s) == {s[k] : k \in DOMAIN s}

\* A player object that does not exist (never created, or removed).
NoPlayer ==
  [live |-> FALSE, listening |-> FALSE, loaded |-> FALSE, playing |-> FALSE,
   currentTime |-> 0, seeking |-> FALSE, target |-> 0, volume |-> InitialVolume]

\* A loadTrack call of Part 2 that is not running.
NoCall == [pc |-> "none", track |-> Null]

\* An optional value: undefined, or a value.
None == <<>>
Some(v) == <<v>>

\* Tags, date, metadata and call of Part 3 that are not there.
NoTags ==
  [found |-> FALSE, title |-> None, artist |-> None, album |-> None,
   genre |-> None, date |-> None]
NoDate == [type |-> "other", n |-> 0, s |-> <<>>]
NoMetadata ==
  [title |-> None, artist |-> None, album |-> None, albumArtist |-> None,
   genre |-> None, year |-> None, trackNumber |-> None, diskNumber |-> None]
NoAsset == [albumName |-> None, creationYear |-> None]
NoTrack ==
  [fileName |-> <<>>, title |-> None, artist |-> None, album |-> None,
   albumArtist |-> None, genre |-> None, year |-> None, trackNumber |-> None,
   diskNumber |-> None]
NoCallMeta ==
  [op |-> "none", fileName |-> <<>>, tags |-> NoTags, asset |-> NoAsset,
   date |-> NoDate, track |-> NoTrack]

\* A createTrackWithMetadata call of the scan that has not been made.
NoScan ==
  [pc |-> "none", found |-> None, failed |-> FALSE, metadata |-> NoMetadata,
   track |-> NoTrack]

\* The state field initialiser.
InitialState ==
  [isPlaying |-> FALSE, isLoading |-> FALSE, currentTrack |-> Null,
   position |-> 0, duration |-> 0, volume |-> InitialVolume]

InitServices ==
  /\ state = InitialState
  /\ player = Null
  /\ listeners = <<>>
  /\ positionUpdateInterval = Null
  /\ players = [p \in PlayerIds |-> NoPlayer]
  /\ timers = {}
  /\ stack = <<>>
  /\ awaiting = 0
  /\ log = <<>>
  /\ tpState = [currentTrack |-> Null, isLoading |-> FALSE]
  /\ isInitialized = FALSE
  /\ settingUp = TRUE
  /\ queue = <<>>
  /\ loads = [c \in CallIds |-> NoCall]
  /\ extracts = [e \in ExtractIds |-> "none"]
  /\ lastIssued = Null
  /\ lastLanded = Null
  /\ playerThrew = FALSE
  /\ scans = [c \in ScanIds |-> NoScan]
  /\ tagQueue = <<>>
  /\ isTrackPlayerInitialized = FALSE

Init ==
  /\ InitServices
  /\ call = NoCallMeta
  /\ metaPc = "none"
  /\ metadata = NoMetadata
  /\ result = NoTrack
  /\ year = None
  /\ info = <<>>

\* No task is running: the event loop may start the next one.
Idle == stack = <<>>

\* { ...s, ...updates }
Spread(s, updates) ==
  [f \in DOMAIN s |-> IF f \in DOMAIN updates THEN updates[f] ELSE s[f]]

\* this.listeners.filter((l) => l !== listener)
Filter(arr, listener) == SelectSeq(arr, LAMBDA l : l # listener)

\* The duration a player object reports: 0 until the source has loaded.
PlayerDuration(p) == IF players[p].loaded THEN MaxSeconds ELSE 0

----------------------------------------------------------------------------
\* subscribe / the unsubscribe handle, called from a task of their own

Subscribe(listener) ==
  /\ Idle
  /\ listener \notin Range(listeners)
  /\ listeners' = Append(listeners, listener)
  /\ UNCHANGED <<state, player, positionUpdateInterval, players, timers,
                 stack, awaiting, log>>
  /\ UNCHANGED <<tpVars, metaVars, scanVars>>

Unsubscribe(listener) ==
  /\ Idle
  /\ listener \in Range(listeners)
  /\ listeners' = Filter(listeners, listener)
  /\ UNCHANGED <<state, player, positionUpdateInterval, players, timers,
                 stack, awaiting, log>>
  /\ UNCHANGED <<tpVars, metaVars, scanVars>>

----------------------------------------------------------------------------
\* notifyListeners / updateState

\* notifyListeners(): forEach walks the array that this.listeners refers to
\* when the round starts and calls its first element at once with a copy of
\* the state; `rest` is what runs after the round.  `by` names the caller of
\* updateState.  The frame keeps the copy the first element was given
\* (`first`) and the copy the element being called was given (`arg`).
notifyListeners(s, rest, by) ==
  IF listeners = <<>>
  THEN rest
  ELSE <<[kind |-> "notify", arr |-> listeners, i |-> 1, by |-> by,
          first |-> s, arg |-> s]>> \o rest

\* updateState(updates), followed by `rest`.
updateState(updates, rest, by) ==
  LET s == Spread(state, updates) IN
  /\ state' = s
  /\ stack' = notifyListeners(s, rest, by)
  /\ log' = IF listeners # <<>>
            THEN Append(log, [l |-> listeners[1], arg |-> s, by |-> by])
            ELSE IF rest = <<>> THEN <<>> ELSE log

\* The listener being called returns; before it does, its callback may invoke
\* the unsubscribe handle of `handle` (Null: it invokes none).  forEach then
\* calls the next element of the array it walks, with a fresh copy of the
\* state, or the round is over.
ListenerReturns(handle) ==
  /\ stack # <<>>
  /\ Head(stack).kind = "notify"
  /\ handle = Null \/ handle \in Range(listeners)
  /\ listeners' = IF handle = Null THEN listeners ELSE Filter(listeners, handle)
  /\ LET f == Head(stack) IN
     IF f.i < Len(f.arr)
     THEN /\ stack' = <<[f EXCEPT !.i = f.i + 1, !.arg = state]>> \o Tail(stack)
          /\ log' = Append(log, [l |-> f.arr[f.i + 1], arg |-> state, by |-> f.by])
     ELSE /\ stack' = Tail(stack)
          /\ log' = IF Tail(stack) = <<>> THEN <<>> ELSE log
  /\ UNCHANGED <<state, player, positionUpdateInterval, players, timers, awaiting>>
  /\ UNCHANGED <<tpVars, metaVars, scanVars>>

----------------------------------------------------------------------------
\* the position poll

\* The timer ids that are set once clearInterval(positionUpdateInterval) ran.
Cleared == timers \ {positionUpdateInterval}

\* setInterval returns a timer id that is not in use.
NewTimer(active) ==
  CHOOSE t \in TimerIds \ active : \A u \in TimerIds \ active : t <= u

\* A startPositionUpdates that sets the new timer without clearing the old.
startPositionUpdates_NoClear ==
  /\ TimerIds \ timers # {}
  /\ timers' = timers \cup {NewTimer(timers)}
  /\ positionUpdateInterval' = NewTimer(timers)

startPositionUpdates ==
  /\ TimerIds \ Cleared # {}
  /\ timers' = Cleared \cup {NewTimer(Cleared)}
  /\ positionUpdateInterval' = NewTimer(Cleared)

stopPositionUpdates ==
  /\ timers' = Cleared
  /\ positionUpdateInterval' = Null

\* The interval callback of startPositionUpdates, every 500 ms.
Tick(t) ==
  /\ Idle
  /\ t \in timers
  /\ IF player # Null /\ players[player].playing
     THEN updateState([position |-> players[player].currentTime * MsPerSecond,
                       duration |-> PlayerDuration(player) * MsPerSecond,
                       isPlaying |-> players[player].playing], <<>>, "tick")
     ELSE UNCHANGED <<state, stack, log>>
  /\ UNCHANGED <<player, listeners, positionUpdateInterval, players, timers,
                 awaiting>>
  /\ UNCHANGED <<tpVars, metaVars, scanVars>>

----------------------------------------------------------------------------
\* loadTrack

LoadOutcomes == {"ok", "removeThrows", "createThrows", "addListenerThrows"}

\* A loadTrack that never releases the player it replaces.
AfterRemove_Leak(thrown) == players

\* The players once this.player.remove() ran (`thrown`: it threw instead).
AfterRemove(thrown) ==
  IF player # Null /\ ~thrown THEN [players EXCEPT ![player] = NoPlayer]
  ELSE players

\* The identities createAudioPlayer can give a new player object: one that no
\* live player has (the field's reference to a removed player is overwritten
\* in the same step).
FreePlayers(ps) == {p \in PlayerIds : ~ps[p].live}

NewPlayer(ps) ==
  CHOOSE p \in FreePlayers(ps) : \A q \in FreePlayers(ps) : p <= q

\* A success update that leaves the position of the previous track.
LoadedUpdates_KeepsPosition(track) ==
  [currentTrack |-> track, isLoading |-> FALSE]

\* A success update that also resets what the player reported.
LoadedUpdates_ResetsPlayback(track) ==
  [currentTrack |-> track, isLoading |-> FALSE, position |-> 0,
   isPlaying |-> FALSE, duration |-> 0]

\* Lines 128-132: what the success update writes.
LoadedUpdates(track) ==
  [currentTrack |-> track, isLoading |-> FALSE, position |-> 0]

\* A catch block that publishes the track that failed to load.
CaughtUpdates_SetsTrack(track) == [isLoading |-> FALSE, currentTrack |-> track]

\* A catch block that leaves the loading flag alone.
CaughtUpdates_Forgets(track) == [position |-> state.position]

\* Line 137: what the catch block writes.
CaughtUpdates(track) == [isLoading |-> FALSE]

\* A loadTrack that starts its work without publishing isLoading first.
LoadTrack_Deferred(track) ==
  /\ Idle
  /\ stack' = <<[kind |-> "loadTrack", pc |-> "body", track |-> track,
                 start |-> state.currentTrack, raised |-> FALSE]>>
  /\ UNCHANGED <<state, player, listeners, positionUpdateInterval, players,
                 timers, awaiting, log>>
  /\ UNCHANGED <<tpVars, metaVars, scanVars>>

\* Line 105: the call itself runs up to and into the first notification round.
LoadTrack(track) ==
  /\ Idle
  /\ updateState([isLoading |-> TRUE],
                 <<[kind |-> "loadTrack", pc |-> "body", track |-> track,
                    start |-> state.currentTrack, raised |-> FALSE]>>,
                 "loadTrack")
  /\ UNCHANGED <<player, listeners, positionUpdateInterval, players, timers,
                 awaiting>>
  /\ UNCHANGED <<tpVars, metaVars, scanVars>>

\* Lines 106-132 and the catch block: stop the poll, release the previous
\* player, create and bind the new one, publish the track; a throw of
\* remove(), createAudioPlayer() or addListener() lands in the catch block
\* (the last one with the new player already bound at line 115).  remove() of a
\* live player releases it; remove() of a player that was already removed
\* either does nothing or throws.
LoadTrackBody(outcome) ==
  /\ stack # <<>>
  /\ Head(stack).kind = "loadTrack"
  /\ Head(stack).pc = "body"
  /\ outcome = "removeThrows" => player # Null /\ ~players[player].live
  /\ LET f == Head(stack)
         ps == AfterRemove(outcome = "removeThrows")
         created == outcome \in {"ok", "addListenerThrows"}
     IN
     /\ created => FreePlayers(ps) # {}
     /\ stopPositionUpdates
     /\ IF created
        THEN /\ players' = [ps EXCEPT ![NewPlayer(ps)] =
                              [NoPlayer EXCEPT !.live = TRUE,
                                               !.listening = (outcome = "ok")]]
             /\ player' = NewPlayer(ps)
        ELSE /\ players' = ps
             /\ player' = player
     /\ IF outcome = "ok"
        THEN updateState(LoadedUpdates(f.track),
                         <<[f EXCEPT !.pc = "loaded"]>> \o Tail(stack),
                         "loadTrack")
        ELSE updateState(CaughtUpdates(f.track),
                         <<[f EXCEPT !.pc = "caught"]>> \o Tail(stack),
                         "loadTrack")
  /\ UNCHANGED <<listeners, awaiting>>
  /\ UNCHANGED <<tpVars, metaVars, scanVars>>

\* The call ends once the round of its last update is over: line 134 after
\* the success update, nothing more after the catch block.  Its promise
\* resolves (raised = FALSE) and its frame is popped.
LoadTrackReturns ==
  /\ stack # <<>>
  /\ Head(stack).kind = "loadTrack"
  /\ Head(stack).pc \in {"loaded", "caught"}
  /\ IF Head(stack).pc = "loaded"
     THEN startPositionUpdates
     ELSE UNCHANGED <<timers, positionUpdateInterval>>
  /\ stack' = Tail(stack)
  /\ log' = IF Tail(stack) = <<>> THEN <<>> ELSE log
  /\ UNCHANGED <<state, player, listeners, players, awaiting>>
  /\ UNCHANGED <<tpVars, metaVars, scanVars>>

----------------------------------------------------------------------------
\* play / pause / stop / seek / setVolume / dispose.  `ok` is whether the
\* player call returns (TRUE) or throws / rejects (FALSE); a call on a removed
\* player that does not throw has no effect on it.

\* The catch block of a command is running: `before` is the state when the
\* player call failed.
Catch(by) == [kind |-> "catch", by |-> by, before |-> state]

\* The catch block logs the error and the command returns.
CommandCaught ==
  /\ stack # <<>>
  /\ Head(stack).kind = "catch"
  /\ stack' = Tail(stack)
  /\ UNCHANGED <<state, player, listeners, positionUpdateInterval, players,
                 timers, awaiting, log>>
  /\ UNCHANGED <<tpVars, metaVars, scanVars>>

\* A play() that publishes isPlaying as soon as the player call returned.
Play_Optimistic(ok) ==
  /\ Idle
  /\ ~ok => player # Null
  /\ IF player = Null
     THEN UNCHANGED <<players, timers, positionUpdateInterval, state, stack, log>>
     ELSE IF ok
     THEN /\ players' = IF players[player].live
                        THEN [players EXCEPT ![player].playing = TRUE]
                        ELSE players
          /\ startPositionUpdates
          /\ updateState([isPlaying |-> TRUE], <<>>, "play")
     ELSE /\ stack' = <<Catch("play")>>
          /\ UNCHANGED <<players, timers, positionUpdateInterval, state, log>>
  /\ UNCHANGED <<player, listeners, awaiting>>
  /\ UNCHANGED <<tpVars, metaVars, scanVars>>

Play(ok) ==
  /\ Idle
  /\ ~ok => player # Null
  /\ IF player = Null
     THEN UNCHANGED <<players, timers, positionUpdateInterval, stack>>
     ELSE IF ok
     THEN /\ players' = IF players[player].live
                        THEN [players EXCEPT ![player].playing = TRUE]
                        ELSE players
          /\ startPositionUpdates
          /\ UNCHANGED stack
     ELSE /\ stack' = <<Catch("play")>>
          /\ UNCHANGED <<players, timers, positionUpdateInterval>>
  /\ UNCHANGED <<state, player, listeners, awaiting, log>>
  /\ UNCHANGED <<tpVars, metaVars, scanVars>>

Pause(ok) ==
  /\ Idle
  /\ ~ok => player # Null
  /\ IF player = Null
     THEN UNCHANGED <<players, timers, positionUpdateInterval, stack>>
     ELSE IF ok
     THEN /\ players' = IF players[player].live
                        THEN [players EXCEPT ![player].playing = FALSE]
                        ELSE players
          /\ stopPositionUpdates
          /\ UNCHANGED stack
     ELSE /\ stack' = <<Catch("pause")>>
          /\ UNCHANGED <<players, timers, positionUpdateInterval>>
  /\ UNCHANGED <<state, player, listeners, awaiting, log>>
  /\ UNCHANGED <<tpVars, metaVars, scanVars>>

\* Lines 165-168 (and 169-170 when no player is bound): with a player the
\* call pauses it, calls seekTo(0) and is suspended at the await; the player
\* moves to 0 later (PlayerSeeks).
Stop(ok) ==
  /\ Idle
  /\ ~ok => player # Null
  /\ IF player = Null
     THEN /\ stopPositionUpdates
          /\ updateState([position |-> 0, isPlaying |-> FALSE], <<>>, "stop")
          /\ UNCHANGED <<players, awaiting>>
     ELSE IF ~ok
     THEN /\ stack' = <<Catch("stop")>>
          /\ UNCHANGED <<state, log, players, awaiting, timers,
                         positionUpdateInterval>>
     ELSE /\ awaiting < MaxAwaiting
          /\ players' = IF players[player].live
                        THEN [players EXCEPT ![player].playing = FALSE,
                                             ![player].seeking = TRUE,
                                             ![player].target = 0]
                        ELSE players
          /\ awaiting' = awaiting + 1
          /\ UNCHANGED <<state, stack, log, timers, positionUpdateInterval>>
  /\ UNCHANGED <<player, listeners>>
  /\ UNCHANGED <<tpVars, metaVars, scanVars>>

\* A stop() that publishes the stopped state also when seekTo(0) rejected.
StopResumes_Finally(ok) ==
  /\ Idle
  /\ awaiting > 0
  /\ ok => \A p \in PlayerIds : ~players[p].seeking
  /\ awaiting' = awaiting - 1
  /\ stopPositionUpdates
  /\ updateState([position |-> 0, isPlaying |-> FALSE],
                 IF ok THEN <<>> ELSE <<Catch("stop")>>, "stop")
  /\ UNCHANGED <<player, listeners, players>>
  /\ UNCHANGED <<tpVars, metaVars, scanVars>>

\* The promise of seekTo(0) settles and stop() resumes: lines 169-170 when it
\* resolved (ok), the catch block when it rejected.
StopResumes(ok) ==
  /\ Idle
  /\ awaiting > 0
  /\ ok => \A p \in PlayerIds : ~players[p].seeking
  /\ awaiting' = awaiting - 1
  /\ IF ok
     THEN /\ stopPositionUpdates
          /\ updateState([position |-> 0, isPlaying |-> FALSE], <<>>, "stop")
     ELSE /\ stack' = <<Catch("stop")>>
          /\ UNCHANGED <<state, log, timers, positionUpdateInterval>>
  /\ UNCHANGED <<player, listeners, players>>
  /\ UNCHANGED <<tpVars, metaVars, scanVars>>

\* The positions seek() is called with: out of range on either side of the
\* track (stop() seeks to 0, within it).
SeekPositions == {k * MsPerSecond : k \in {0 - 1, MaxSeconds + 1}}

\* A seek() that publishes the requested position at once.
Seek_Optimistic(positionMillis, ok) ==
  /\ Idle
  /\ ~ok => player # Null
  /\ IF player = Null
     THEN UNCHANGED <<players, state, stack, log>>
     ELSE IF ok
     THEN /\ players' =
               IF players[player].live
               THEN [players EXCEPT
                       ![player].seeking = TRUE,
                       ![player].target = positionMillis \div MsPerSecond]
               ELSE players
          /\ updateState([position |-> positionMillis], <<>>, "seek")
     ELSE /\ stack' = <<Catch("seek")>>
          /\ UNCHANGED <<players, state, log>>
  /\ UNCHANGED <<player, listeners, positionUpdateInterval, timers, awaiting>>
  /\ UNCHANGED <<tpVars, metaVars, scanVars>>

\* seek(positionMillis): the player is asked for positionMillis / 1000; the
\* await that follows has nothing after it but the end of the try block.
Seek(positionMillis, ok) ==
  /\ Idle
  /\ ~ok => player # Null
  /\ IF player = Null
     THEN UNCHANGED <<players, stack>>
     ELSE IF ok
     THEN /\ players' =
               IF players[player].live
               THEN [players EXCEPT
                       ![player].seeking = TRUE,
                       ![player].target = positionMillis \div MsPerSecond]
               ELSE players
          /\ UNCHANGED stack
     ELSE /\ stack' = <<Catch("seek")>>
          /\ UNCHANGED players
  /\ UNCHANGED <<state, player, listeners, positionUpdateInterval, timers,
                 awaiting, log>>
  /\ UNCHANGED <<tpVars, metaVars, scanVars>>

\* The volume setVolume() is called with, in hundredths: 1.5, above [0, 1].
Volumes == {InitialVolume + InitialVolume \div 2}

\* A setVolume() that records the volume before it assigns the player's.
SetVolume_Optimistic(volume, ok) ==
  /\ Idle
  /\ ~ok => player # Null
  /\ IF player = Null
     THEN UNCHANGED <<players, state, stack, log>>
     ELSE /\ players' = IF players[player].live /\ ok
                        THEN [players EXCEPT ![player].volume = volume]
                        ELSE players
          /\ updateState([volume |-> volume],
                         IF ok THEN <<>> ELSE <<Catch("setVolume")>>,
                         "setVolume")
  /\ UNCHANGED <<player, listeners, positionUpdateInterval, timers, awaiting>>
  /\ UNCHANGED <<tpVars, metaVars, scanVars>>

\* setVolume(volume): the player's volume is assigned, then the state.
SetVolume(volume, ok) ==
  /\ Idle
  /\ ~ok => player # Null
  /\ IF player = Null
     THEN UNCHANGED <<players, state, stack, log>>
     ELSE IF ok
     THEN /\ players' = IF players[player].live
                        THEN [players EXCEPT ![player].volume = volume]
                        ELSE players
          /\ updateState([volume |-> volume], <<>>, "setVolume")
     ELSE /\ stack' = <<Catch("setVolume")>>
          /\ UNCHANGED <<players, state, log>>
  /\ UNCHANGED <<player, listeners, positionUpdateInterval, timers, awaiting>>
  /\ UNCHANGED <<tpVars, metaVars, scanVars>>

\* dispose() has no try/catch: when remove() throws, the field keeps the player.
Dispose(ok) ==
  /\ Idle
  /\ ~ok => player # Null /\ ~players[player].live
  /\ stopPositionUpdates
  /\ IF player # Null /\ ok
     THEN /\ players' = [players EXCEPT ![player] = NoPlayer]
          /\ player' = Null
     ELSE UNCHANGED <<players, player>>
  /\ UNCHANGED <<state, listeners, stack, awaiting, log>>
  /\ UNCHANGED <<tpVars, metaVars, scanVars>>

----------------------------------------------------------------------------
\* the expo-audio player (external): it loads its source, advances while it
\* plays, stops at the end, and pushes PLAYBACK_STATUS_UPDATE events.  The
\* native side is observed by the store only when a task reads it, so its
\* steps are taken between tasks.

PlayerLoads(p) ==
  /\ Idle
  /\ players[p].live
  /\ ~players[p].loaded
  /\ players' = [players EXCEPT ![p].loaded = TRUE]
  /\ UNCHANGED <<state, player, listeners, positionUpdateInterval, timers,
                 stack, awaiting, log>>
  /\ UNCHANGED <<tpVars, metaVars, scanVars>>

\* What the player makes of a position it was asked for: it stays within
\* the duration it reports.
Clamp(t, p) ==
  IF t < 0 THEN 0 ELSE IF t > PlayerDuration(p) THEN PlayerDuration(p) ELSE t

\* A seek the player was asked for takes effect.
PlayerSeeks(p) ==
  /\ Idle
  /\ players[p].seeking
  /\ players' = [players EXCEPT ![p].seeking = FALSE, ![p].target = 0,
                                ![p].currentTime = Clamp(players[p].target, p)]
  /\ UNCHANGED <<state, player, listeners, positionUpdateInterval, timers,
                 stack, awaiting, log>>
  /\ UNCHANGED <<tpVars, metaVars, scanVars>>

PlayerAdvances(p) ==
  /\ Idle
  /\ players[p].live
  /\ players[p].loaded
  /\ players[p].playing
  /\ players' = IF players[p].currentTime < MaxSeconds
                THEN [players EXCEPT ![p].currentTime = @ + 1]
                ELSE [players EXCEPT ![p].playing = FALSE]
  /\ UNCHANGED <<state, player, listeners, positionUpdateInterval, timers,
                 stack, awaiting, log>>
  /\ UNCHANGED <<tpVars, metaVars, scanVars>>

\* The listener registered at lines 118-126, called with the player's status.
StatusUpdate(p) ==
  /\ Idle
  /\ players[p].live
  /\ players[p].listening
  /\ IF players[p].loaded
     THEN updateState([isPlaying |-> players[p].playing,
                       position |-> players[p].currentTime * MsPerSecond,
                       duration |-> PlayerDuration(p) * MsPerSecond],
                      <<>>, "status")
     ELSE UNCHANGED <<state, stack, log>>
  /\ UNCHANGED <<player, listeners, positionUpdateInterval, players, timers,
                 awaiting>>
  /\ UNCHANGED <<tpVars, metaVars, scanVars>>

----------------------------------------------------------------------------
Next ==
  \/ \E l \in ListenerIds : Subscribe(l)
  \/ \E l \in ListenerIds : Unsubscribe(l)
  \/ \E h \in ListenerIds \cup {Null} : ListenerReturns(h)
  \/ \E t \in TrackIds : LoadTrack(t)
  \/ \E o \in LoadOutcomes : LoadTrackBody(o)
  \/ LoadTrackReturns
  \/ \E ok \in BOOLEAN : Play(ok)
  \/ \E ok \in BOOLEAN : Pause(ok)
  \/ \E ok \in BOOLEAN : Stop(ok)
  \/ \E ok \in BOOLEAN : StopResumes(ok)
  \/ \E pos \in SeekPositions, ok \in BOOLEAN : Seek(pos, ok)
  \/ \E v \in Volumes, ok \in BOOLEAN : SetVolume(v, ok)
  \/ CommandCaught
  \/ \E ok \in BOOLEAN : Dispose(ok)
  \/ \E t \in TimerIds : Tick(t)
  \/ \E p \in PlayerIds : PlayerLoads(p)
  \/ \E p \in PlayerIds : PlayerSeeks(p)
  \/ \E p \in PlayerIds : PlayerAdvances(p)
  \/ \E p \in PlayerIds : StatusUpdate(p)

Spec == Init /\ [][Next]_vars

\* A task that is running runs to its end: callbacks return, and the player
\* calls of loadTrack return or throw.
TaskStep ==
  \/ \E h \in ListenerIds \cup {Null} : ListenerReturns(h)
  \/ \E o \in LoadOutcomes : LoadTrackBody(o)
  \/ LoadTrackReturns
  \/ CommandCaught

FairSpec == Spec /\ WF_vars(TaskStep)

----------------------------------------------------------------------------
\* Commands issued by a listener from inside its callback

\* The listener being called keeps the volume at `volume`: unless getState()
\* shows that volume, it calls setVolume(volume).  With a player bound
\* updateState runs a whole round, on the listeners array of that moment,
\* before the callback goes on.
ListenerSetsVolume(volume) ==
  /\ stack # <<>>
  /\ Head(stack).kind = "notify"
  /\ state.volume # volume
  /\ player # Null
  /\ players' = IF players[player].live
                THEN [players EXCEPT ![player].volume = volume]
                ELSE players
  /\ updateState([volume |-> volume], stack, "setVolume")
  /\ UNCHANGED <<player, listeners, positionUpdateInterval, timers, awaiting>>
  /\ UNCHANGED <<tpVars, metaVars, scanVars>>

\* The listener being called calls stop() when getState() shows playback
\* or a position, while no player is bound: the call has no await on its way
\* to updateState.
ListenerStops ==
  /\ stack # <<>>
  /\ Head(stack).kind = "notify"
  /\ state.isPlaying \/ state.position # 0
  /\ player = Null
  /\ stopPositionUpdates
  /\ updateState([position |-> 0, isPlaying |-> FALSE], stack, "stop")
  /\ UNCHANGED <<player, listeners, players, awaiting>>
  /\ UNCHANGED <<tpVars, metaVars, scanVars>>

NextReentrant ==
  \/ Next
  \/ \E v \in Volumes : ListenerSetsVolume(v)
  \/ ListenerStops

SpecReentrant == Init /\ [][NextReentrant]_vars

----------------------------------------------------------------------------
\* Part 2: the TrackPlayer AudioService and MetadataService.extractMetadata

\* The constructor's setupTrackPlayer(): setupPlayer() resolves or throws.
ConstructorSetupReturns(ok) ==
  /\ settingUp
  /\ settingUp' = FALSE
  /\ isInitialized' = (isInitialized \/ ok)
  /\ UNCHANGED <<tpState, queue, loads, extracts, lastIssued, lastLanded,
                 playerThrew>>
  /\ UNCHANGED <<expoVars, metaVars, scanVars>>

FreeCalls == {c \in CallIds : loads[c].pc = "none"}
NewCall == CHOOSE c \in FreeCalls : \A d \in FreeCalls : c <= d

\* A success update that a call issued before the latest one does not write.
LandedState_LatestWins(track) ==
  IF track = lastIssued
  THEN [currentTrack |-> track, isLoading |-> FALSE]
  ELSE [tpState EXCEPT !.isLoading = FALSE]

\* The success update of loadTrack.
LandedState(track) == [currentTrack |-> track, isLoading |-> FALSE]

\* loadTrack(track) up to its first await: setupTrackPlayer() when the
\* service is not initialised, else TrackPlayer.reset().
TPLoadTrack(track) ==
  /\ FreeCalls # {}
  /\ lastIssued' = track
  /\ IF isInitialized
     THEN /\ tpState' = [tpState EXCEPT !.isLoading = TRUE]
          /\ loads' = [loads EXCEPT ![NewCall] = [pc |-> "reset", track |-> track]]
     ELSE /\ tpState' = tpState
          /\ loads' = [loads EXCEPT ![NewCall] = [pc |-> "setup", track |-> track]]
  /\ UNCHANGED <<isInitialized, settingUp, queue, extracts, lastLanded,
                 playerThrew>>
  /\ UNCHANGED <<expoVars, metaVars, scanVars>>

\* The call's setupTrackPlayer() returns (it catches what setupPlayer()
\* throws); the call publishes isLoading and calls TrackPlayer.reset().
TPSetupReturns(c, ok) ==
  /\ loads[c].pc = "setup"
  /\ isInitialized' = (isInitialized \/ ok)
  /\ tpState' = [tpState EXCEPT !.isLoading = TRUE]
  /\ loads' = [loads EXCEPT ![c].pc = "reset"]
  /\ UNCHANGED <<settingUp, queue, extracts, lastIssued, lastLanded,
                 playerThrew>>
  /\ UNCHANGED <<expoVars, metaVars, scanVars>>

\* The catch block of loadTrack.
TPCaught(c) ==
  /\ tpState' = [tpState EXCEPT !.isLoading = FALSE]
  /\ loads' = [loads EXCEPT ![c] = NoCall]
  /\ playerThrew' = TRUE

\* TrackPlayer.reset() resolves, and the call calls TrackPlayer.add(); or it
\* throws.
TPResetReturns(c, ok) ==
  /\ loads[c].pc = "reset"
  /\ IF ok
     THEN /\ queue' = <<>>
          /\ loads' = [loads EXCEPT ![c].pc = "add"]
          /\ UNCHANGED <<tpState, playerThrew>>
     ELSE /\ TPCaught(c)
          /\ UNCHANGED queue
  /\ UNCHANGED <<isInitialized, settingUp, extracts, lastIssued, lastLanded>>
  /\ UNCHANGED <<expoVars, metaVars, scanVars>>

\* TrackPlayer.add() resolves, and the call publishes its track; or it throws.
TPAddReturns(c, ok) ==
  /\ loads[c].pc = "add"
  /\ IF ok
     THEN /\ Len(queue) < MaxQueue
          /\ queue' = Append(queue, loads[c].track)
          /\ tpState' = LandedState(loads[c].track)
          /\ lastLanded' = loads[c].track
          /\ loads' = [loads EXCEPT ![c] = NoCall]
          /\ UNCHANGED playerThrew
     ELSE /\ TPCaught(c)
          /\ UNCHANGED <<queue, lastLanded>>
  /\ UNCHANGED <<isInitialized, settingUp, extracts, lastIssued>>
  /\ UNCHANGED <<expoVars, metaVars, scanVars>>

\* extractMetadata(uri, filename) up to `await this.initializeTrackPlayer()`.
ExtractMetadata(e) ==
  /\ extracts[e] = "none"
  /\ extracts' = [extracts EXCEPT ![e] = "init"]
  /\ UNCHANGED <<tpState, isInitialized, settingUp, queue, loads, lastIssued,
                 lastLanded, playerThrew>>
  /\ UNCHANGED <<expoVars, metaVars, scanVars>>

\* initializeTrackPlayer() returns; the call calls TrackPlayer.add(tempTrack).
ExtractInitialized(e) ==
  /\ extracts[e] = "init"
  /\ extracts' = [extracts EXCEPT ![e] = "add"]
  /\ UNCHANGED <<tpState, isInitialized, settingUp, queue, loads, lastIssued,
                 lastLanded, playerThrew>>
  /\ UNCHANGED <<expoVars, metaVars, scanVars>>

\* add(tempTrack) resolves, and the call calls getQueue(); or it throws, and
\* the call falls back to the file name.
ExtractAddReturns(e, ok) ==
  /\ extracts[e] = "add"
  /\ IF ok
     THEN /\ Len(queue) < MaxQueue
          /\ queue' = Append(queue, TempId)
          /\ extracts' = [extracts EXCEPT ![e] = "getQueue"]
          /\ UNCHANGED playerThrew
     ELSE /\ extracts' = [extracts EXCEPT ![e] = "none"]
          /\ playerThrew' = TRUE
          /\ UNCHANGED queue
  /\ UNCHANGED <<tpState, isInitialized, settingUp, loads, lastIssued,
                 lastLanded>>
  /\ UNCHANGED <<expoVars, metaVars, scanVars>>

\* getQueue() resolves, and the call calls reset(); or it throws.
ExtractGetQueueReturns(e, ok) ==
  /\ extracts[e] = "getQueue"
  /\ extracts' = [extracts EXCEPT ![e] = IF ok THEN "reset" ELSE "none"]
  /\ playerThrew' = (playerThrew \/ ~ok)
  /\ UNCHANGED <<tpState, isInitialized, settingUp, queue, loads, lastIssued,
                 lastLanded>>
  /\ UNCHANGED <<expoVars, metaVars, scanVars>>

\* reset() resolves or throws, and the call returns.
ExtractResetReturns(e, ok) ==
  /\ extracts[e] = "reset"
  /\ extracts' = [extracts EXCEPT ![e] = "none"]
  /\ queue' = IF ok THEN <<>> ELSE queue
  /\ playerThrew' = (playerThrew \/ ~ok)
  /\ UNCHANGED <<tpState, isInitialized, settingUp, loads, lastIssued,
                 lastLanded>>
  /\ UNCHANGED <<expoVars, metaVars, scanVars>>

NextTP ==
  \/ \E ok \in BOOLEAN : ConstructorSetupReturns(ok)
  \/ \E t \in TrackIds : TPLoadTrack(t)
  \/ \E c \in CallIds, ok \in BOOLEAN : TPSetupReturns(c, ok)
  \/ \E c \in CallIds, ok \in BOOLEAN : TPResetReturns(c, ok)
  \/ \E c \in CallIds, ok \in BOOLEAN : TPAddReturns(c, ok)
  \/ \E e \in ExtractIds : ExtractMetadata(e)
  \/ \E e \in ExtractIds : ExtractInitialized(e)
  \/ \E e \in ExtractIds, ok \in BOOLEAN : ExtractAddReturns(e, ok)
  \/ \E e \in ExtractIds, ok \in BOOLEAN : ExtractGetQueueReturns(e, ok)
  \/ \E e \in ExtractIds, ok \in BOOLEAN : ExtractResetReturns(e, ok)

SpecTP == Init /\ [][NextTP]_vars

\* The player answers every call: each suspended loadTrack call resumes.
CallReturns(c) ==
  \E ok \in BOOLEAN :
    TPSetupReturns(c, ok) \/ TPResetReturns(c, ok) \/ TPAddReturns(c, ok)

FairSpecTP == SpecTP /\ \A c \in CallIds : WF_vars(CallReturns(c))

----------------------------------------------------------------------------
\* Part 3: the string functions of MetadataService.  A string is the sequence
\* of its characters; an optional value is <<>> (undefined) or <<v>>.

\* JavaScript truthiness of an optional string, and a || b on strings;
\* the same for optional numbers.
Truthy(o) == o # None /\ o[1] # <<>>
Or(a, b) == IF Truthy(a) THEN a ELSE b
TruthyNumber(o) == o # None /\ o[1] # 0
OrNumber(a, b) == IF TruthyNumber(a) THEN a ELSE b

Digits == <<"0", "1", "2", "3", "4", "5", "6", "7", "8", "9">>
IsDigit(c) == c \in Range(Digits)
DigitValue(c) == (CHOOSE k \in DOMAIN Digits : Digits[k] = c) - 1
IsSpace(c) == c = " "

\* s.slice(i), with i the 1-based index of the first character kept.
From(s, i) == SubSeq(s, i, Len(s))

\* s.indexOf(sub), 1-based; 0 when sub does not occur.
IndexOf(s, sub) ==
  LET hits == {i \in 1..(Len(s) - Len(sub) + 1) :
                 SubSeq(s, i, i + Len(sub) - 1) = sub}
  IN IF hits = {} THEN 0 ELSE CHOOSE i \in hits : \A j \in hits : i <= j

\* s.includes(sub)
Includes(s, sub) == IndexOf(s, sub) # 0

\* s.split(sep)
RECURSIVE Split(_, _)
Split(s, sep) ==
  LET i == IndexOf(s, sep)
  IN IF i = 0
     THEN <<s>>
     ELSE <<SubSeq(s, 1, i - 1)>> \o Split(From(s, i + Len(sep)), sep)

\* parts.join(sep)
RECURSIVE Join(_, _)
Join(parts, sep) ==
  IF parts = <<>> THEN <<>>
  ELSE IF Len(parts) = 1 THEN parts[1]
  ELSE parts[1] \o sep \o Join(Tail(parts), sep)

\* s.trim()
RECURSIVE TrimStart(_)
TrimStart(s) ==
  IF s # <<>> /\ IsSpace(s[1]) THEN TrimStart(Tail(s)) ELSE s

RECURSIVE TrimEnd(_)
TrimEnd(s) ==
  IF s # <<>> /\ IsSpace(s[Len(s)])
  THEN TrimEnd(SubSeq(s, 1, Len(s) - 1))
  ELSE s

Trim(s) == TrimEnd(TrimStart(s))

\* s.replace(/\.[^/.]+$/, ""): the last dot and what follows it are removed
\* when at least one character follows and none of them is a slash.
StripExtension(s) ==
  LET dots == {i \in DOMAIN s : s[i] = "."}
      d == CHOOSE i \in dots : \A j \in dots : j <= i
  IN IF dots # {} /\ d < Len(s) /\ \A i \in (d + 1)..Len(s) : s[i] # "/"
     THEN SubSeq(s, 1, d - 1)
     ELSE s

\* The number of digits, and of white-space characters, s starts with.
RECURSIVE LeadingDigits(_)
LeadingDigits(s) ==
  IF s # <<>> /\ IsDigit(s[1]) THEN 1 + LeadingDigits(Tail(s)) ELSE 0

RECURSIVE LeadingSpaces(_)
LeadingSpaces(s) ==
  IF s # <<>> /\ IsSpace(s[1]) THEN 1 + LeadingSpaces(Tail(s)) ELSE 0

\* s.replace(/^\d+\.?\s*/, "")
StripNumericPrefix(s) ==
  LET n == LeadingDigits(s)
      afterDigits == From(s, n + 1)
      afterDot == IF afterDigits # <<>> /\ afterDigits[1] = "."
                  THEN Tail(afterDigits)
                  ELSE afterDigits
  IN IF n = 0 THEN s ELSE From(afterDot, LeadingSpaces(afterDot) + 1)

\* s.replace(/_/g, " ")
ReplaceUnderscores(s) ==
  [i \in DOMAIN s |-> IF s[i] = "_" THEN " " ELSE s[i]]

\* s.replace(/\s+/g, " ")
RECURSIVE CollapseSpaces(_)
CollapseSpaces(s) ==
  IF Len(s) <= 1 THEN s
  ELSE IF IsSpace(s[1]) /\ IsSpace(s[2]) THEN CollapseSpaces(Tail(s))
  ELSE <<s[1]>> \o CollapseSpaces(Tail(s))

Separator == <<" ", "-", " ">>

\* A parser that takes the part between the first and the second separator
\* as the title.
parseMetadataFromFilename_SecondPart(filename) ==
  LET cleanName == StripExtension(filename)
      parts == Split(cleanName, Separator)
      split == Includes(cleanName, Separator) /\ Len(parts) >= 2
      title0 == IF split THEN parts[2] ELSE cleanName
      title == Trim(CollapseSpaces(ReplaceUnderscores(
                 StripNumericPrefix(title0))))
  IN [title |-> Or(Some(title), Some(cleanName)),
      artist |-> IF split THEN Some(Trim(parts[1])) ELSE None,
      album |-> None,
      albumArtist |-> None,
      genre |-> None,
      year |-> None,
      trackNumber |-> None,
      diskNumber |-> None]

\* parseMetadataFromFilename(filename)
parseMetadataFromFilename(filename) ==
  LET cleanName == StripExtension(filename)
      parts == Split(cleanName, Separator)
      split == Includes(cleanName, Separator) /\ Len(parts) >= 2
      title0 == IF split THEN Join(Tail(parts), Separator) ELSE cleanName
      title == Trim(CollapseSpaces(ReplaceUnderscores(
                 StripNumericPrefix(title0))))
  IN [title |-> Or(Some(title), Some(cleanName)),
      artist |-> IF split THEN Some(Trim(parts[1])) ELSE None,
      album |-> None,
      albumArtist |-> None,
      genre |-> None,
      year |-> None,
      trackNumber |-> None,
      diskNumber |-> None]

\* date.match(/(\d{4})/): the index of the first four consecutive digits.
FourDigitsAt(s) ==
  LET hits == {i \in 1..(Len(s) - 3) : \A k \in 0..3 : IsDigit(s[i + k])}
  IN IF hits = {} THEN 0 ELSE CHOOSE i \in hits : \A j \in hits : i <= j

\* parseInt of four digit characters, radix 10.
ParseInt4(s, i) ==
  DigitValue(s[i]) * 1000 + DigitValue(s[i + 1]) * 100
    + DigitValue(s[i + 2]) * 10 + DigitValue(s[i + 3])

\* extractYearFromDate(date); a date is [type, n, s].
extractYearFromDate(date) ==
  IF date.type = "number" THEN Some(date.n)
  ELSE IF date.type = "string" /\ FourDigitsAt(date.s) # 0
  THEN Some(ParseInt4(date.s, FourDigitsAt(date.s)))
  ELSE None

\* The result of extractMetadata(uri, filename) when the player returned the
\* temporary track with `tags` (found), and when it did not or threw.
extractMetadata(filename, tags) ==
  IF tags.found
  THEN [title |-> tags.title,
        artist |-> tags.artist,
        album |-> tags.album,
        albumArtist |-> tags.artist,
        genre |-> tags.genre,
        year |-> IF Truthy(tags.date)
                 THEN extractYearFromDate(
                        [type |-> "string", n |-> 0, s |-> tags.date[1]])
                 ELSE None,
        trackNumber |-> None,
        diskNumber |-> None]
  ELSE parseMetadataFromFilename(filename)

UnknownArtist == <<"U", "n", "k", "n", "o", "w", "n", " ", "A", "r", "t", "i", "s", "t">>
UnknownAlbum == <<"U", "n", "k", "n", "o", "w", "n", " ", "A", "l", "b", "u", "m">>

\* The object createTrackWithMetadata returns, given extractMetadata's result
\* and what the media library knows of the asset: the title of its album
\* (absent when it has none or the lookup threw) and the year of its
\* creationTime (id, uri and duration are passed through and left out).
createTrackWithMetadata(fileName, meta, asset) ==
  [fileName |-> fileName,
   title |-> Or(meta.title,
                Or(parseMetadataFromFilename(fileName).title,
                   Some(StripExtension(fileName)))),
   artist |-> Or(meta.artist, Some(UnknownArtist)),
   album |-> Or(meta.album, Or(asset.albumName, Some(UnknownAlbum))),
   albumArtist |-> meta.albumArtist,
   genre |-> meta.genre,
   year |-> OrNumber(meta.year, asset.creationYear),
   trackNumber |-> meta.trackNumber,
   diskNumber |-> meta.diskNumber]

\* n.toString() of a natural number.
RECURSIVE NumberToString(_)
NumberToString(n) ==
  IF n < 10 THEN <<Digits[n + 1]>>
  ELSE NumberToString(n \div 10) \o <<Digits[(n % 10) + 1]>>

\* The separator of formatTrackInfo (its glyph written as "|").
InfoSeparator == <<" ", "|", " ">>
NoMetadataAvailable == <<"N", "o", " ", "m", "e", "t", "a", "d", "a", "t", "a", " ", "a", "v", "a", "i", "l", "a", "b", "l", "e">>

\* A formatTrackInfo that puts the album before the artist.
formatTrackInfo_AlbumFirst(track) ==
  LET parts ==
        (IF Truthy(track.album) /\ track.album # Some(UnknownAlbum)
         THEN <<track.album[1]>> ELSE <<>>)
        \o (IF Truthy(track.artist) /\ track.artist # Some(UnknownArtist)
            THEN <<track.artist[1]>> ELSE <<>>)
        \o (IF TruthyNumber(track.year)
            THEN <<NumberToString(track.year[1])>> ELSE <<>>)
        \o (IF Truthy(track.genre) THEN <<track.genre[1]>> ELSE <<>>)
  IN IF Len(parts) > 0 THEN Join(parts, InfoSeparator)
     ELSE NoMetadataAvailable

\* formatTrackInfo(track): the parts pushed, joined.
formatTrackInfo(track) ==
  LET parts ==
        (IF Truthy(track.artist) /\ track.artist # Some(UnknownArtist)
         THEN <<track.artist[1]>> ELSE <<>>)
        \o (IF Truthy(track.album) /\ track.album # Some(UnknownAlbum)
            THEN <<track.album[1]>> ELSE <<>>)
        \o (IF TruthyNumber(track.year)
            THEN <<NumberToString(track.year[1])>> ELSE <<>>)
        \o (IF Truthy(track.genre) THEN <<track.genre[1]>> ELSE <<>>)
  IN IF Len(parts) > 0 THEN Join(parts, InfoSeparator)
     ELSE NoMetadataAvailable

\* getDetailedTrackInfo(track)
getDetailedTrackInfo(track) ==
  [primary |-> track.title, secondary |-> formatTrackInfo(track)]

\* File names: concatenations of tokens, and the names the documentation
\* mentions.
Tokens == {<<"a">>, <<"1">>, <<" ">>, <<"_">>, <<".">>, Separator}

\* The concatenation of a sequence of tokens.
RECURSIVE Flatten(_)
Flatten(ts) == IF ts = <<>> THEN <<>> ELSE Head(ts) \o Flatten(Tail(ts))

\* The concatenations of up to n tokens.
Concats(tokens, n) ==
  {Flatten(ts) : ts \in UNION {[1..k -> tokens] : k \in 0..n}}

ExampleNames ==
  {<<"0", "1", ".", ".", "m", "p", "3">>,
   <<"_", "_", "_", ".", "m", "p", "3">>,
   <<".", "m", "p", "3">>,
   <<"0", "2", " ", "S", "a", "m", "p", "l", "e", " ", "S", "o", "n", "g", ".", "m", "p", "3">>,
   <<"A", " ", "-", " ", "B", ".", "e", "x", "t">>}

\* Names given to parseMetadataFromFilename / to createTrackWithMetadata.
MaxTokens == 5
MaxCreateTokens == 3
ParseNames == (Concats(Tokens, MaxTokens) \ {<<>>}) \cup ExampleNames
CreateNames == (Concats(Tokens, MaxCreateTokens) \ {<<>>}) \cup ExampleNames

TagTitle == <<"T", "a", "g", " ", "T", "i", "t", "l", "e">>
TagArtist == <<"T", "a", "g", " ", "A", "r", "t", "i", "s", "t">>
DemoAlbum == <<"D", "e", "m", "o", " ", "A", "l", "b", "u", "m">>
LibraryAlbum == <<"L", "i", "b", "r", "a", "r", "y", " ", "A", "l", "b", "u", "m">>
TagGenre == <<"R", "o", "c", "k">>
TagDate == <<"2", "0", "2", "4", "-", "0", "5", "-", "0", "1">>

\* What the player may return for the temporary track.
TagSets ==
  {NoTags} \cup
  [found : {TRUE},
   title : {None, Some(<<>>), Some(<<" ">>), Some(TagTitle)},
   artist : {None, Some(<<>>), Some(TagArtist)},
   album : {None, Some(DemoAlbum)},
   genre : {None},
   date : {None}] \cup
  {[NoTags EXCEPT !.found = TRUE, !.date = Some(TagDate)],
   [NoTags EXCEPT !.found = TRUE, !.genre = Some(TagGenre)]}

\* What the media library knows of the asset.
Assets ==
  {NoAsset,
   [NoAsset EXCEPT !.albumName = Some(LibraryAlbum)],
   [NoAsset EXCEPT !.creationYear = Some(2020)]}

\* The Track objects given to getDetailedTrackInfo.
Tracks ==
  {[NoTrack EXCEPT !.title = Some(TagTitle), !.artist = a, !.album = b,
                   !.year = y, !.genre = g] :
     a \in {None, Some(<<>>), Some(UnknownArtist), Some(TagArtist)},
     b \in {None, Some(<<>>), Some(UnknownAlbum), Some(DemoAlbum)},
     y \in {None, Some(0), Some(2024)},
     g \in {None, Some(<<>>), Some(TagGenre)}}

\* Dates given to extractYearFromDate.
DateTokens == {<<"1">>, <<"2", "0", "2", "4">>, <<"-">>, <<"x">>}
MaxDateTokens == 3
ExampleDates == {TagDate, <<"n", "o", " ", "d", "i", "g", "i", "t", "s">>}
DateStrings == Concats(DateTokens, MaxDateTokens) \cup ExampleDates
Dates ==
  {[type |-> "string", n |-> 0, s |-> s] : s \in DateStrings}
    \cup {[type |-> "number", n |-> n, s |-> <<>>] : n \in {0, 2024}}
    \cup {NoDate}

\* The calls the functions are applied to.
ParseCalls ==
  {[NoCallMeta EXCEPT !.op = "parse", !.fileName = f] : f \in ParseNames}
CreateCalls ==
  {[NoCallMeta EXCEPT !.op = "create", !.fileName = f, !.tags = t,
                      !.asset = a] :
     f \in CreateNames, t \in TagSets, a \in Assets}
YearCalls == {[NoCallMeta EXCEPT !.op = "year", !.date = d] : d \in Dates}
FormatCalls == {[NoCallMeta EXCEPT !.op = "format", !.track = t] : t \in Tracks}

InitMeta ==
  /\ InitServices
  /\ \/ call \in ParseCalls
     \/ call \in CreateCalls
     \/ call \in YearCalls
     \/ call \in FormatCalls
  /\ metaPc = "called"
  /\ metadata = NoMetadata
  /\ result = NoTrack
  /\ year = None
  /\ info = <<>>

\* parseMetadataFromFilename(fileName) returns.
ParseReturns ==
  /\ metaPc = "called"
  /\ call.op = "parse"
  /\ result' = [fileName |-> call.fileName]
                 @@ parseMetadataFromFilename(call.fileName)
  /\ metaPc' = "returned"
  /\ UNCHANGED <<call, metadata, year, info>>
  /\ UNCHANGED <<expoVars, tpVars, scanVars>>

\* createTrackWithMetadata: `await this.extractMetadata(uri, fileName)` is
\* over.
MetadataExtracted ==
  /\ metaPc = "called"
  /\ call.op = "create"
  /\ metadata' = extractMetadata(call.fileName, call.tags)
  /\ metaPc' = "extracted"
  /\ UNCHANGED <<call, result, year, info>>
  /\ UNCHANGED <<expoVars, tpVars, scanVars>>

\* createTrackWithMetadata returns the Track.
CreateReturns ==
  /\ metaPc = "extracted"
  /\ result' = createTrackWithMetadata(call.fileName, metadata, call.asset)
  /\ metaPc' = "returned"
  /\ UNCHANGED <<call, metadata, year, info>>
  /\ UNCHANGED <<expoVars, tpVars, scanVars>>

\* extractYearFromDate(date) returns.
YearReturns ==
  /\ metaPc = "called"
  /\ call.op = "year"
  /\ year' = extractYearFromDate(call.date)
  /\ metaPc' = "returned"
  /\ UNCHANGED <<call, metadata, result, info>>
  /\ UNCHANGED <<expoVars, tpVars, scanVars>>

\* How many times getDetailedTrackInfo is called on the same Track.
MaxInfoCalls == 2

\* getDetailedTrackInfo(track) returns.
InfoReturns ==
  /\ call.op = "format"
  /\ Len(info) < MaxInfoCalls
  /\ info' = Append(info, getDetailedTrackInfo(call.track))
  /\ metaPc' = "returned"
  /\ UNCHANGED <<call, metadata, result, year>>
  /\ UNCHANGED <<expoVars, tpVars, scanVars>>

NextMeta ==
  \/ ParseReturns
  \/ MetadataExtracted
  \/ CreateReturns
  \/ YearReturns
  \/ InfoReturns

SpecMeta == InitMeta /\ [][NextMeta]_vars

----------------------------------------------------------------------------
\* Part 4: the library scan.  loadDeviceMusic maps every asset to a call of
\* createTrackWithMetadata and awaits the calls with Promise.all: the calls
\* share the MetadataService singleton and the queue of the TrackPlayer
\* singleton.  Call c handles asset c; a later scan calls it again.

\* asset.filename of asset f.
ScanFileName(f) ==
  IF f = 1
  THEN <<"0", "2", " ", "S", "o", "n", "g", ".", "m", "p", "3">>
  ELSE NumberToString(f) \o Separator \o <<"c", ".", "m", "p", "3">>

\* What the player returns for the queue entry added for the file of asset
\* f: tags of the file, or the title the entry was added with.
ScanTags(f) ==
  IF f = 1
  THEN [found |-> TRUE, title |-> Some(TagTitle), artist |-> Some(TagArtist),
        album |-> Some(DemoAlbum), genre |-> Some(TagGenre),
        date |-> Some(TagDate)]
  ELSE [NoTags EXCEPT !.found = TRUE, !.title = Some(ScanFileName(f))]

\* asset.albumId is set, and what the media library knows of asset f.
HasAlbumId(f) == f = 1
ScanAsset(f) ==
  IF HasAlbumId(f)
  THEN [albumName |-> Some(LibraryAlbum), creationYear |-> Some(2020)]
  ELSE NoAsset

\* createTrackWithMetadata after `await this.extractMetadata(uri, fileName)`
\* returned meta: it looks the album up, or returns the Track at once.
AfterExtract(f, s, meta) ==
  IF HasAlbumId(f)
  THEN [s EXCEPT !.pc = "album", !.metadata = meta]
  ELSE [s EXCEPT !.pc = "returned", !.metadata = meta,
                 !.track = createTrackWithMetadata(ScanFileName(f), meta,
                                                   ScanAsset(f))]

\* An extractMetadata whose try block has no catch: the call rejects.
ExtractCaught_Rethrows(f, s) == [s EXCEPT !.pc = "rejected", !.failed = TRUE]

\* this.parseMetadataFromFilename(filename) for the file of each asset.
ScanParsed ==
  [f \in ScanIds |-> parseMetadataFromFilename(ScanFileName(f))]

\* The catch block of extractMetadata, and the fallback after it.
ExtractCaught(f, s) ==
  AfterExtract(f, [s EXCEPT !.failed = TRUE], ScanParsed[f])

\* createTrackWithMetadata(...) up to the first await that leaves the
\* service: setupPlayer() when the flag is not set, else add(tempTrack).
ScanCall(c) ==
  /\ scans[c].pc \in {"none", "returned"}
  /\ scans' = [scans EXCEPT ![c] =
                 [NoScan EXCEPT !.pc = IF isTrackPlayerInitialized
                                       THEN "add" ELSE "setup"]]
  /\ UNCHANGED <<tagQueue, isTrackPlayerInitialized>>
  /\ UNCHANGED <<expoVars, tpVars, metaVars>>

\* setupPlayer() resolves or throws: initializeTrackPlayer sets the flag or
\* catches, and extractMetadata calls add(tempTrack).
ScanSetupReturns(c, ok) ==
  /\ scans[c].pc = "setup"
  /\ isTrackPlayerInitialized' = (isTrackPlayerInitialized \/ ok)
  /\ scans' = [scans EXCEPT ![c].pc = "add"]
  /\ UNCHANGED tagQueue
  /\ UNCHANGED <<expoVars, tpVars, metaVars>>

\* add(tempTrack) resolves, and the call calls getQueue(); or it throws.
ScanAddReturns(c, ok) ==
  /\ scans[c].pc = "add"
  /\ IF ok
     THEN /\ Len(tagQueue) < MaxTagQueue
          /\ tagQueue' = Append(tagQueue, c)
          /\ scans' = [scans EXCEPT ![c].pc = "getQueue"]
     ELSE /\ scans' = [scans EXCEPT ![c] = ExtractCaught(c, scans[c])]
          /\ UNCHANGED tagQueue
  /\ UNCHANGED isTrackPlayerInitialized
  /\ UNCHANGED <<expoVars, tpVars, metaVars>>

\* tracks.find((t) => t.id === "temp-metadata-extract"): every entry of the
\* queue has that id, so it is the first one (the asset it was added for).
FindTemp(tracks) == IF tracks = <<>> THEN None ELSE Some(Head(tracks))

\* getQueue() resolves, and the call calls reset(); or it throws.
ScanGetQueueReturns(c, ok) ==
  /\ scans[c].pc = "getQueue"
  /\ scans' = [scans EXCEPT ![c] =
                 IF ok
                 THEN [scans[c] EXCEPT !.pc = "reset",
                                       !.found = FindTemp(tagQueue)]
                 ELSE ExtractCaught(c, scans[c])]
  /\ UNCHANGED <<tagQueue, isTrackPlayerInitialized>>
  /\ UNCHANGED <<expoVars, tpVars, metaVars>>

\* reset() resolves, and extractMetadata returns the record of the entry it
\* found or falls back to the file name; or reset() throws.
ScanResetReturns(c, ok) ==
  /\ scans[c].pc = "reset"
  /\ IF ok
     THEN /\ tagQueue' = <<>>
          /\ scans' = [scans EXCEPT ![c] =
               AfterExtract(c, scans[c],
                 IF scans[c].found = None THEN ScanParsed[c]
                 ELSE extractMetadata(ScanFileName(c),
                                      ScanTags(scans[c].found[1])))]
     ELSE /\ scans' = [scans EXCEPT ![c] = ExtractCaught(c, scans[c])]
          /\ UNCHANGED tagQueue
  /\ UNCHANGED isTrackPlayerInitialized
  /\ UNCHANGED <<expoVars, tpVars, metaVars>>

\* MediaLibrary.getAlbumsAsync() resolves or throws, and the call returns
\* the Track.
ScanAlbumReturns(c, ok) ==
  /\ scans[c].pc = "album"
  /\ scans' = [scans EXCEPT ![c] =
       [scans[c] EXCEPT
          !.pc = "returned",
          !.track = createTrackWithMetadata(
                      ScanFileName(c), scans[c].metadata,
                      IF ok THEN ScanAsset(c)
                      ELSE [ScanAsset(c) EXCEPT !.albumName = None])]]
  /\ UNCHANGED <<tagQueue, isTrackPlayerInitialized>>
  /\ UNCHANGED <<expoVars, tpVars, metaVars>>

\* The awaited promise of call c settles.
ScanStep(c) ==
  \E ok \in BOOLEAN :
    \/ ScanSetupReturns(c, ok)
    \/ ScanAddReturns(c, ok)
    \/ ScanGetQueueReturns(c, ok)
    \/ ScanResetReturns(c, ok)
    \/ ScanAlbumReturns(c, ok)

NextScan ==
  \/ \E c \in ScanIds : ScanCall(c)
  \/ \E c \in ScanIds, ok \in BOOLEAN : ScanSetupReturns(c, ok)
  \/ \E c \in ScanIds, ok \in BOOLEAN : ScanAddReturns(c, ok)
  \/ \E c \in ScanIds, ok \in BOOLEAN : ScanGetQueueReturns(c, ok)
  \/ \E c \in ScanIds, ok \in BOOLEAN : ScanResetReturns(c, ok)
  \/ \E c \in ScanIds, ok \in BOOLEAN : ScanAlbumReturns(c, ok)

SpecScan == Init /\ [][NextScan]_vars

\* The platform settles every promise a call awaits.
FairSpecScan == SpecScan /\ \A c \in ScanIds : WF_vars(ScanStep(c))

----------------------------------------------------------------------------
\* Properties of the expo-audio AudioService

\* A listener is being called: the frame on top is a notification round, and
\* the callback of its current element has not run yet.
Calling == stack # <<>> /\ Head(stack).kind = "notify"
Called == Head(stack).arr[Head(stack).i]
\* The state copy the listener being called was given.
Arg == log[Len(log)].arg

\* A loadTrack call is at its end (the round of its last update is over).
AtEnd(pc) ==
  stack # <<>> /\ Head(stack).kind = "loadTrack" /\ Head(stack).pc = pc

LiveCount == Cardinality({p \in PlayerIds : players[p].live})

\* C1: once a listener's unsubscribe handle has been invoked, the listener is
\* never called again, also not later in a notification round during which
\* another listener's callback invoked the handle.  (subscribe and the handle
\* are the only writers of this.listeners, so the handle of a listener was
\* invoked, and the listener not subscribed again, exactly when the listener
\* is not in this.listeners.)
C1_NoCallAfterUnsubscribe == Calling => Called \in Range(listeners)

\* C2: stop() publishes position = 0 and isPlaying = FALSE at once: its own
\* notification carries these values, and no notification of a player status
\* callback is delivered between the call to stop()
\* and that notification, i.e. while a stop() call is suspended.
C2_StopPublishesAtOnce ==
  Calling =>
    /\ Head(stack).by = "stop" => Arg.position = 0 /\ ~Arg.isPlaying
    /\ awaiting > 0 => Head(stack).by # "status"

\* C3: when a loadTrack call has failed, currentTrack is absent, whatever was
\* loaded before the call.
C3_FailedLoadLeavesNoTrack == AtEnd("caught") => state.currentTrack = Null

\* C4: a loadTrack(t) call in which the player fails ends with isLoading =
\* FALSE, never writes currentTrack (every notification of the call carries
\* the track that was current when the call started, and so does the state
\* at its end), and its promise is not rejected.
C4_FailedLoad ==
  AtEnd("caught") =>
    /\ ~state.isLoading
    /\ state.currentTrack = Head(stack).start
    /\ \A k \in DOMAIN log : log[k].arg.currentTrack = Head(stack).start
    /\ ~Head(stack).raised

C4_Witness ==
  /\ AtEnd("caught")
  /\ Head(stack).start # Null
  /\ Head(stack).track # Head(stack).start
  /\ Len(log) >= 2

\* A notification that carries the loaded track t with isLoading = FALSE.
IsFinal(e, t) == e.arg.currentTrack = t /\ ~e.arg.isLoading

\* C5: when a loadTrack(t) call has succeeded, every notification of the call
\* either has isLoading = TRUE or carries currentTrack = t, isLoading = FALSE
\* and position = 0; no listener was given the latter more than once, and
\* every listener that is subscribed was given it exactly once.
C5_OneFinalNotification ==
  AtEnd("loaded") =>
    LET t == Head(stack).track
        finals(l) == {k \in DOMAIN log : log[k].l = l /\ IsFinal(log[k], t)}
    IN /\ \A k \in DOMAIN log :
            \/ log[k].arg.isLoading
            \/ IsFinal(log[k], t) /\ log[k].arg.position = 0
       /\ \A l \in ListenerIds : Cardinality(finals(l)) <= 1
       /\ \A l \in Range(listeners) : Cardinality(finals(l)) = 1

C5_Witness ==
  /\ AtEnd("loaded")
  /\ Len(listeners) >= 2
  /\ Head(stack).start # Null
  /\ \E k \in DOMAIN log : log[k].arg.isLoading /\ log[k].arg.position > 0

\* C8: at most one player object that was created and not removed exists,
\* whether loads succeed or fail.
C8_AtMostOneLivePlayer == LiveCount <= 1

C8_Witness ==
  /\ AtEnd("loaded")
  /\ Head(stack).start # Null
  /\ LiveCount = 1

\* C9: from its first step on, and until its success or failure update, a
\* loadTrack call has isLoading = TRUE published: the state has it in every
\* state in which the call has not yet reached lines 106-132, and when the
\* first round is over every subscribed listener was called with it.  (Tasks
\* start only from an empty stack, so nothing else runs in between.)
C9_LoadingFlagAtOnce ==
  \A n \in DOMAIN stack :
    (stack[n].kind = "loadTrack" /\ stack[n].pc = "body") =>
      /\ state.isLoading
      /\ \A k \in DOMAIN log : log[k].arg.isLoading /\ log[k].by = "loadTrack"
      /\ n = 1 => \A l \in Range(listeners) : \E k \in DOMAIN log : log[k].l = l

C9_Witness ==
  /\ stack # <<>>
  /\ Head(stack).kind = "loadTrack"
  /\ Head(stack).pc = "body"
  /\ Len(log) >= 2
  /\ awaiting > 0

\* A loadTrack call has started and not reached its success or failure end.
InFlight ==
  \E n \in DOMAIN stack : stack[n].kind = "loadTrack" /\ stack[n].pc = "body"
\* A loadTrack call has started and not returned.
Running == \E n \in DOMAIN stack : stack[n].kind = "loadTrack"

\* C10: isLoading = TRUE only while a loadTrack call has started and not yet
\* reached its success or failure end (so it is FALSE whenever no call is in
\* flight), and every loadTrack call that started ends.
C10_LoadingOnlyInFlight ==
  /\ [](state.isLoading => InFlight)
  /\ (Running ~> ~Running)

C10_Witness == Calling /\ InFlight /\ state.isLoading /\ Len(listeners) >= 2

----------------------------------------------------------------------------
\* Properties of the commands of the expo-audio AudioService

\* A notification round starts or goes on after the step.
Notified == stack' # <<>> /\ Head(stack').kind = "notify"

\* The step is a play(), pause() or seek() call.
PlayPauseSeek ==
  \/ \E ok \in BOOLEAN : Play(ok) \/ Pause(ok)
  \/ \E pos \in SeekPositions, ok \in BOOLEAN : Seek(pos, ok)

\* The step is a status callback or a tick of the position poll.
StatusOrPoll ==
  \/ \E p \in PlayerIds : StatusUpdate(p)
  \/ \E t \in TimerIds : Tick(t)

\* The step is stop() publishing (with no player bound, or resumed).
StopPublishes == \E ok \in BOOLEAN : Stop(ok) \/ StopResumes(ok)

\* C11: a play(), pause() or seek() call changes no field of the state and
\* notifies nobody; isPlaying becomes TRUE only in a step of a status callback
\* or of the position poll, and changes at all only in such a step or when
\* stop() publishes; seek(positionMillis) hands positionMillis / 1000 to the
\* player as it is, also when it is out of range.
C11_CommandsPublishNothing ==
  [][/\ PlayPauseSeek => (state' = state /\ log' = log /\ ~Notified)
     /\ (state'.isPlaying /\ ~state.isPlaying) => StatusOrPoll
     /\ (state'.isPlaying # state.isPlaying) => (StatusOrPoll \/ StopPublishes)
     /\ \A pos \in SeekPositions :
          (Seek(pos, TRUE) /\ player # Null /\ players[player].live)
            => players'[player].target * MsPerSecond = pos]_vars

\* play() was issued and the player plays, the store has not been told yet;
\* a seek beyond the end of the track is pending in the player.
C11_Witness ==
  /\ Idle
  /\ listeners # <<>>
  /\ player # Null
  /\ players[player].playing
  /\ ~state.isPlaying
  /\ players[player].seeking
  /\ players[player].target > MaxSeconds

\* C12: a play() call made while currentTrack is absent commands no player,
\* starts no poll, changes no state and notifies nobody.
C12_PlayWithoutTrackIsNoOp ==
  [][((\E ok \in BOOLEAN : Play(ok)) /\ state.currentTrack = Null)
       => (UNCHANGED <<state, players, timers, positionUpdateInterval, log>>
           /\ ~Notified)]_vars

\* The catch block of a command is running.
Caught == stack # <<>> /\ Head(stack).kind = "catch"

\* C13: when a player call of play, pause, stop, seek or setVolume has
\* failed, the command is in its catch block (it does not raise), the state
\* has the six field values it had when the call failed, and no listener was
\* called.
C13_RejectedCommandChangesNothing ==
  Caught => (state = Head(stack).before /\ log = <<>> /\ Len(stack) = 1)

\* seekTo(0) of a stop() rejected while the store shows a playing track and
\* listeners are subscribed.
C13_Witness ==
  /\ Caught
  /\ Head(stack).by = "stop"
  /\ listeners # <<>>
  /\ state.isPlaying
  /\ state.position > 0

\* C14: state.volume changes only in a step in which a player is bound and
\* that player (if it still exists) has been given the same value; the step
\* starts one notification round, by setVolume, carrying the value; a
\* setVolume(v) call whose player call succeeds makes state.volume v and one
\* whose player call fails leaves it.
C14_VolumeAfterPlayer ==
  [][/\ (state'.volume # state.volume) =>
          /\ player # Null
          /\ players[player].live => players'[player].volume = state'.volume
          /\ listeners # <<>> =>
               /\ Notified
               /\ Head(stack').by = "setVolume"
               /\ Head(stack').arg.volume = state'.volume
               /\ Len(stack') = 1
     /\ \A v \in Volumes :
          /\ (SetVolume(v, TRUE) /\ player # Null) => state'.volume = v
          /\ SetVolume(v, FALSE) => state'.volume = state.volume]_vars

\* A listener is being told the volume that the player was given.
C14_Witness ==
  /\ Calling
  /\ Head(stack).by = "setVolume"
  /\ player # Null
  /\ players[player].live
  /\ players[player].volume \in Volumes
  /\ state.volume = players[player].volume

\* C16: in every state 0 <= position <= duration (the player keeps its
\* currentTime within the duration it reports).
C16_PositionWithinDuration ==
  0 <= state.position /\ state.position <= state.duration

\* The store shows the end of the track while a seek beyond the end is
\* pending in the player.
C16_Witness ==
  /\ state.duration > 0
  /\ state.position = state.duration
  /\ player # Null
  /\ players[player].seeking
  /\ players[player].target > MaxSeconds

\* C15: all listeners called in one notification round are given copies of
\* one and the same state version, also when a listener issues a command
\* from inside its callback.
C15_OneVersionPerRound ==
  \A i \in DOMAIN stack :
    stack[i].kind = "notify" => stack[i].arg = stack[i].first

----------------------------------------------------------------------------
\* Properties of the TrackPlayer AudioService

CallsInFlight == {c \in CallIds : loads[c].pc # "none"}
Extracting == \E e \in ExtractIds : extracts[e] # "none"

\* C6: overlapping loadTrack calls are neither cancelled nor serialized: every
\* call that started resumes until it has ended, and once no call is in
\* flight currentTrack is the track of the call whose add() resolved last,
\* whichever call was issued last.
C6_LastCompletionWins ==
  /\ []((CallsInFlight = {} /\ lastLanded # Null)
          => tpState.currentTrack = lastLanded)
  /\ \A c \in CallIds : (c \in CallsInFlight) ~> (c \notin CallsInFlight)

\* Two calls overlapped, no player call threw, and the call issued last is
\* not the one that landed last.
C6_Witness ==
  /\ CallsInFlight = {}
  /\ ~playerThrew
  /\ lastLanded # Null
  /\ lastLanded # lastIssued
  /\ tpState.currentTrack = lastLanded

\* C7: once no loadTrack call is in flight (and no extraction is, and no
\* player call threw), the TrackPlayer queue is exactly <<currentTrack>>.
C7_QueueIsCurrentTrack ==
  (CallsInFlight = {} /\ ~Extracting /\ ~playerThrew
     /\ tpState.currentTrack # Null)
    => queue = <<tpState.currentTrack>>

----------------------------------------------------------------------------
\* Properties of MetadataService

Returned(op) == metaPc = "returned" /\ call.op = op

\* tag when present and non-empty, else the parser's value when present and
\* non-empty, else the default.
Chain(tag, parsed, default) ==
  IF Truthy(tag) THEN tag ELSE IF Truthy(parsed) THEN parsed ELSE default

\* C17: title, artist and album of the Track returned by
\* createTrackWithMetadata are each resolved by the chain tag, filename
\* parser, default (the album when the media library names none).
C17_PriorityChain ==
  Returned("create") =>
    LET parsed == parseMetadataFromFilename(call.fileName)
    IN /\ result.title = Chain(call.tags.title, parsed.title,
                               Some(StripExtension(call.fileName)))
       /\ result.artist = Chain(call.tags.artist, parsed.artist,
                                Some(UnknownArtist))
       /\ call.asset.albumName = None =>
            result.album = Chain(call.tags.album, parsed.album,
                                 Some(UnknownAlbum))

\* C18: the title of the Track returned by createTrackWithMetadata is
\* neither empty nor made of white space only.
C18_TitleNeverBlank ==
  Returned("create") => (result.title # None /\ Trim(result.title[1]) # <<>>)

\* stem cleaned as the parser cleans a title.
Cleaned(s) ==
  Trim(CollapseSpaces(ReplaceUnderscores(StripNumericPrefix(s))))

\* What splitting the stem at its first separator gives: the artist (the
\* text before it, trimmed; absent without a separator) and the cleaned text
\* after it (of the whole stem without a separator).
FirstSplit(fileName) ==
  LET stem == StripExtension(fileName)
      i == IndexOf(stem, Separator)
  IN IF i = 0
     THEN [artist |-> None, title |-> Cleaned(stem)]
     ELSE [artist |-> Some(Trim(SubSeq(stem, 1, i - 1))),
           title |-> Cleaned(From(stem, i + Len(Separator)))]

\* C19 as stated: the parser's artist and title are those of the split at
\* the first separator, for every file name.
C19_AsStated ==
  Returned("parse") =>
    /\ result.artist = FirstSplit(call.fileName).artist
    /\ result.title = Some(FirstSplit(call.fileName).title)

\* C19: the parser's artist is that of the split at the first separator, and
\* its title is the cleaned text after that separator, or the whole
\* extension-stripped name when that text is empty.
C19_FirstSeparatorSplit ==
  Returned("parse") =>
    /\ result.artist = FirstSplit(call.fileName).artist
    /\ result.title =
         IF FirstSplit(call.fileName).title # <<>>
         THEN Some(FirstSplit(call.fileName).title)
         ELSE Some(StripExtension(call.fileName))

\* A name with two separators was parsed: the second one is in the title.
C19_Witness ==
  /\ Returned("parse")
  /\ result.artist = Some(<<"a">>)
  /\ result.title = Some(<<"a">> \o Separator \o <<"a">>)

\* The index at which the first maximal run of exactly four digits of s
\* starts; 0 when s has no such run.
RunOfFourAt(s) ==
  LET hits == {i \in 1..(Len(s) - 3) :
                 /\ \A k \in 0..3 : IsDigit(s[i + k])
                 /\ i = 1 \/ ~IsDigit(s[i - 1])
                 /\ i + 3 = Len(s) \/ ~IsDigit(s[i + 4])}
  IN IF hits = {} THEN 0 ELSE CHOOSE i \in hits : \A j \in hits : i <= j

\* C20: extractYearFromDate returns a number unchanged; of a string it
\* returns the first run of exactly four digits as an integer, and nothing
\* when the string has no such run.
C20_YearIsRunOfFour ==
  Returned("year") =>
    year = IF call.date.type = "number" THEN Some(call.date.n)
           ELSE IF call.date.type = "string" /\ RunOfFourAt(call.date.s) # 0
           THEN Some(ParseInt4(call.date.s, RunOfFourAt(call.date.s)))
           ELSE None

----------------------------------------------------------------------------
\* Further properties of the expo-audio AudioService

\* C24: currentTrack is absent while a load is in progress, and in the state
\* that stop() publishes.
C24_EmptyWhileLoadingAndAfterStop ==
  /\ state.isLoading => state.currentTrack = Null
  /\ (Calling /\ Head(stack).by = "stop") => Arg.currentTrack = Null

\* C26: whenever a player is bound (and exists), state.volume is the volume
\* of that player.
C26_VolumeIsPlayerVolume ==
  (player # Null /\ players[player].live)
    => state.volume = players[player].volume

\* C27: the player field, when non-null, refers to a player that has not
\* been removed.
C27_BoundPlayerIsLive == player # Null => players[player].live

\* C28: the success update of loadTrack sets currentTrack, isLoading and
\* position and leaves isPlaying, duration and volume as they were.
C28_SuccessUpdateFrame ==
  [][LoadTrackBody("ok") =>
       /\ state'.currentTrack = Head(stack).track
       /\ ~state'.isLoading
       /\ state'.position = 0
       /\ state'.isPlaying = state.isPlaying
       /\ state'.duration = state.duration
       /\ state'.volume = state.volume]_vars

\* A second track has just been published: the store still shows the
\* playback and the duration of the first one, the new player has neither.
C28_Witness ==
  /\ Calling
  /\ Head(stack).by = "loadTrack"
  /\ ~state.isLoading
  /\ state.currentTrack # Null
  /\ state.currentTrack # stack[2].start
  /\ state.isPlaying
  /\ state.duration > 0
  /\ ~players[player].playing
  /\ ~players[player].loaded

\* A pause() that reached the player, a stop() that went through, a
\* dispose().
PollStopped(paused) ==
  \/ \E ok \in paused : Pause(ok)
  \/ Stop(TRUE) /\ player = Null
  \/ StopResumes(TRUE)
  \/ \E ok \in BOOLEAN : Dispose(ok)

\* C29 as stated: at most one poll timer is set, and none is set after any
\* pause(), after a successful stop() and after dispose().
C29_AsStated ==
  [][/\ Cardinality(timers') <= 1
     /\ PollStopped(BOOLEAN) => timers' = {}]_vars

\* C29: the same, for a pause() whose player call did not throw.
C29_OnePollTimer ==
  [][/\ Cardinality(timers') <= 1
     /\ PollStopped({TRUE}) => timers' = {}]_vars

\* stop() has gone through and publishes: no poll timer is set, although a
\* play() issued while stop() was suspended has the player playing.
C29_Witness ==
  /\ Calling
  /\ Head(stack).by = "stop"
  /\ timers = {}
  /\ player # Null
  /\ players[player].playing

----------------------------------------------------------------------------
\* Further properties of MetadataService

\* C21: year and genre of the Track returned by createTrackWithMetadata are
\* absent when the tags carry none, and so are trackNumber and diskNumber
\* (which the tag reader never supplies), whatever the media library knows
\* of the asset.
C21_OptionalFieldsFromTagsOnly ==
  Returned("create") =>
    /\ (~call.tags.found \/ ~Truthy(call.tags.date)) => result.year = None
    /\ (~call.tags.found \/ call.tags.genre = None) => result.genre = None
    /\ result.trackNumber = None
    /\ result.diskNumber = None

\* The parts of a Track that qualify for the secondary line, in the order
\* artist, album, year, genre.
Qualifying(track) ==
  LET candidates ==
        <<IF track.artist = Some(UnknownArtist) THEN None ELSE track.artist,
          IF track.album = Some(UnknownAlbum) THEN None ELSE track.album,
          IF TruthyNumber(track.year)
          THEN Some(NumberToString(track.year[1]))
          ELSE None,
          track.genre>>
      present == SelectSeq(candidates, Truthy)
  IN [k \in DOMAIN present |-> present[k][1]]

\* C22: every getDetailedTrackInfo(track) call returns primary = track.title
\* and secondary = the qualifying parts joined with the separator in the
\* order artist, album, year, genre; secondary is 'No metadata available'
\* exactly when no part qualifies; a second call returns what the first did.
C22_DetailedTrackInfo ==
  Returned("format") =>
    \A k \in DOMAIN info :
      /\ info[k].primary = call.track.title
      /\ Qualifying(call.track) # <<>> =>
           info[k].secondary = Join(Qualifying(call.track), InfoSeparator)
      /\ (info[k].secondary = NoMetadataAvailable)
           <=> (Qualifying(call.track) = <<>>)
      /\ info[k] = info[1]

\* The second call on a Track with all four parts has returned.
C22_Witness ==
  /\ Returned("format")
  /\ Len(info) = MaxInfoCalls
  /\ info[MaxInfoCalls].secondary =
       TagArtist \o InfoSeparator \o DemoAlbum \o InfoSeparator
         \o <<"2", "0", "2", "4">> \o InfoSeparator \o TagGenre

----------------------------------------------------------------------------
\* Properties of the library scan

\* Call c is under way: made, and neither returned nor rejected.
Scanning(c) == scans[c].pc \in {"setup", "add", "getQueue", "reset", "album"}

\* The Track of asset f when nothing was read from the player: title and
\* artist of the filename parser with their defaults, the album the media
\* library names or the default, the year of the asset, nothing else.
FallbackTrack(f, albumName) ==
  LET name == ScanFileName(f)
      parsed == parseMetadataFromFilename(name)
  IN [fileName |-> name,
      title |-> IF Truthy(parsed.title) THEN parsed.title
                ELSE Some(StripExtension(name)),
      artist |-> IF Truthy(parsed.artist) THEN parsed.artist
                 ELSE Some(UnknownArtist),
      album |-> IF Truthy(albumName) THEN albumName ELSE Some(UnknownAlbum),
      albumArtist |-> None,
      genre |-> None,
      year |-> ScanAsset(f).creationYear,
      trackNumber |-> None,
      diskNumber |-> None]

OwnTracks(f) ==
  {createTrackWithMetadata(ScanFileName(f), meta, asset) :
     meta \in {extractMetadata(ScanFileName(f), ScanTags(f)),
               parseMetadataFromFilename(ScanFileName(f))},
     asset \in {ScanAsset(f), [ScanAsset(f) EXCEPT !.albumName = None]}}

\* C25: title, artist and album of the Track a call of the scan returns are
\* derived from the call's own file, whatever the other calls do.
C25_OwnFileOnly ==
  \A c \in ScanIds :
    scans[c].pc = "returned" =>
      \E t \in OwnTracks(c) :
        /\ scans[c].track.title = t.title
        /\ scans[c].track.artist = t.artist
        /\ scans[c].track.album = t.album

\* C30: setupPlayer is invoked only when no earlier invocation is in flight
\* and none has succeeded.
C30_SetupOnce ==
  [][\A c \in ScanIds :
       (scans[c].pc # "setup" /\ scans'[c].pc = "setup") =>
         /\ ~isTrackPlayerInitialized
         /\ \A d \in ScanIds : scans[d].pc # "setup"]_vars

====
